---- MODULE Spec2Model ----
(***************************************************************************)
(* Conversion task orchestrator of the file-convert backend:               *)
(* src/src/index.ts (upload handler, convertAsync, sweeper),               *)
(* src/src/utils.ts (router, backend invokers), src/src/config.ts.         *)
(*                                                                         *)
(* Node.js runs one callback at a time.  Every action below is one         *)
(* callback run to its next await: a request handler, the continuation of  *)
(* an exec() call, a timer callback, or a promise reaction (microtask).    *)
(* Promise reactions run before any further request, timer or exec         *)
(* callback, which is what MicrotaskPending expresses.                     *)
(***************************************************************************)
EXTENDS Integers, Sequences, FiniteSets, TLC

(* ------------------------------ bounds -------------------------------- *)
\* number of accepted submissions in one run
MaxJobs == 3
\* number of accepted submissions in one run of the gate alone (SpecGate)
GateJobs == 4
\* number of clock advances in one run
MaxTicks == 1
\* number of accepted submissions in one run of the upload route (SpecApi)
ApiJobs == 2
\* number of uploaded files that rejections may leave in the upload directory
MaxStrays == 1

(* ------------------------- program constants -------------------------- *)
maxConcurrent == 2
fileExpireTime == 24 * 60 * 60 * 1000
uploadsOrphanAge == 60 * 60 * 1000
publicOrphanAge == 24 * 60 * 60 * 1000
\* the friendly-name timestamp is YYMMDDHHmm: one value per clock minute
MsPerMinute == 60 * 1000
\* digits of the timestamp convertAsync appends (five two-digit parts)
TimestampDigits == 2 + 2 + 2 + 2 + 2
\* digits the orphan sweep's pattern /_\d{8}\./ asks for
PatternDigits == 8

\* amounts by which the clock is observed to advance between callbacks: just
\* over the upload orphan age, just over the retention window (either one
\* also changes the clock minute)
ClockSteps == {uploadsOrphanAge + MsPerMinute, fileExpireTime + MsPerMinute}

Jobs == 1..(IF MaxJobs > GateJobs THEN MaxJobs ELSE GateJobs)

(* ------------------------------ router -------------------------------- *)
\* supportedConversions: category -> target format -> allowed source extensions
supportedConversions ==
  [document |->
     [pdf  |-> {".doc", ".docx", ".ppt", ".pptx", ".xls", ".xlsx", ".txt", ".rtf"},
      doc  |-> {".docx", ".rtf", ".txt", ".odt", ".html", ".pdf"},
      docx |-> {".doc", ".rtf", ".txt", ".odt", ".html", ".pdf"},
      xlsx |-> {".xls", ".ods", ".csv", ".txt", ".pdf", ".doc"},
      xls  |-> {".xlsx", ".ods", ".csv", ".txt", ".pdf", ".doc"},
      pptx |-> {".ppt", ".odp", ".pdf"},
      ppt  |-> {".pptx", ".odp", ".pdf"},
      txt  |-> {".doc", ".docx", ".rtf", ".odt", ".pdf", ".xls", ".xlsx"},
      rtf  |-> {".doc", ".docx", ".txt", ".odt"},
      html |-> {".pdf", ".doc", ".docx"}],
   audio |->
     [mp3  |-> {".mp3", ".wav", ".aac", ".flac", ".m4a", ".ogg", ".wma"},
      wav  |-> {".wav", ".mp3", ".aac", ".flac", ".m4a", ".ogg", ".wma"},
      aac  |-> {".aac", ".mp3", ".wav", ".m4a", ".flac"},
      flac |-> {".flac", ".wav", ".mp3", ".aac"},
      ogg  |-> {".ogg", ".mp3", ".wav", ".flac"},
      m4a  |-> {".m4a", ".mp3", ".wav", ".aac"}]]

\* pythonConversions: the keys "src->target" as pairs, with the script each names
pythonConversions ==
  (<<"pdf", "doc">>   :> "pdfToDoc")   @@ (<<"pdf", "docx">>  :> "pdfToDoc")   @@
  (<<"pdf", "txt">>   :> "pdfToTxt")   @@ (<<"pdf", "xls">>   :> "pdfToXls")   @@
  (<<"pdf", "xlsx">>  :> "pdfToXls")   @@ (<<"pdf", "ppt">>   :> "pdfToPpt")   @@
  (<<"pdf", "pptx">>  :> "pdfToPpt")   @@ (<<"doc", "html">>  :> "docToHtml")  @@
  (<<"docx", "html">> :> "docToHtml")  @@ (<<"xls", "doc">>   :> "xlsToDoc")   @@
  (<<"xlsx", "doc">>  :> "xlsToDoc")   @@ (<<"xls", "docx">>  :> "xlsToDoc")   @@
  (<<"xlsx", "docx">> :> "xlsToDoc")   @@ (<<"xls", "txt">>   :> "xlsToTxt")   @@
  (<<"xlsx", "txt">>  :> "xlsToTxt")   @@ (<<"txt", "doc">>   :> "txtToWord")  @@
  (<<"txt", "docx">>  :> "txtToWord")  @@ (<<"txt", "xls">>   :> "txtToXls")   @@
  (<<"txt", "xlsx">>  :> "txtToXls")   @@ (<<"html", "doc">>  :> "htmlToWord") @@
  (<<"html", "docx">> :> "htmlToWord") @@ (<<"html", "pdf">>  :> "htmlToPdf")

\* every script path config.pythonScripts names and pythonConversions uses
AllScripts == {pythonConversions[k] : k \in DOMAIN pythonConversions}

\* the extensions of the tables and one that is in none, each with its name
\* after replace(".", "")
ExtNames ==
  (".doc" :> "doc") @@ (".docx" :> "docx") @@ (".ppt" :> "ppt") @@ (".pptx" :> "pptx") @@
  (".xls" :> "xls") @@ (".xlsx" :> "xlsx") @@ (".txt" :> "txt") @@ (".rtf" :> "rtf") @@
  (".odt" :> "odt") @@ (".html" :> "html") @@ (".pdf" :> "pdf") @@ (".ods" :> "ods") @@
  (".csv" :> "csv") @@ (".odp" :> "odp") @@ (".mp3" :> "mp3") @@ (".wav" :> "wav") @@
  (".aac" :> "aac") @@ (".flac" :> "flac") @@ (".m4a" :> "m4a") @@ (".ogg" :> "ogg") @@
  (".wma" :> "wma") @@ (".xyz" :> "xyz") @@
  ("" :> "")

\* sourceExt.replace(".", "")
StripDot(ext) == ExtNames[ext]

\* conversionKey = `${sourceFormat}->${targetFormat}`
ConversionKey(sourceExt, targetFormat) == <<StripDot(sourceExt), targetFormat>>

\* mutant: a pair with a named script is supported whether or not the script
\* file is there
isConversionSupportedMut(scriptsOnDisk, category, sourceExt, targetFormat) ==
  IF category # "document"
  THEN /\ category \in DOMAIN supportedConversions
       /\ targetFormat \in DOMAIN supportedConversions[category]
       /\ sourceExt \in supportedConversions[category][targetFormat]
  ELSE IF targetFormat \notin DOMAIN supportedConversions.document
       THEN FALSE
       ELSE IF ConversionKey(sourceExt, targetFormat) \in DOMAIN pythonConversions
            THEN TRUE
            ELSE sourceExt \in supportedConversions.document[targetFormat]

\* isConversionSupported(category, sourceExt, targetFormat), reading the
\* script files that exist on disk
isConversionSupported(scriptsOnDisk, category, sourceExt, targetFormat) ==
  IF category # "document"
  THEN /\ category \in DOMAIN supportedConversions
       /\ targetFormat \in DOMAIN supportedConversions[category]
       /\ sourceExt \in supportedConversions[category][targetFormat]
  ELSE IF targetFormat \notin DOMAIN supportedConversions.document
       THEN FALSE
       ELSE IF ConversionKey(sourceExt, targetFormat) \in DOMAIN pythonConversions
            THEN pythonConversions[ConversionKey(sourceExt, targetFormat)] \in scriptsOnDisk
            ELSE sourceExt \in supportedConversions.document[targetFormat]

\* getSupportedTargets(category, sourceExt), reading the script files that
\* exist on disk: the targets it returns, or threw when Object.entries is
\* handed the undefined table entry of a category that has none
getSupportedTargets(scriptsOnDisk, category, sourceExt) ==
  IF category # "document"
  THEN IF category \notin DOMAIN supportedConversions
       THEN [threw |-> TRUE, targets |-> {}]
       ELSE [threw |-> FALSE,
             targets |-> {target \in DOMAIN supportedConversions[category] :
                            sourceExt \in supportedConversions[category][target]}]
  ELSE [threw |-> FALSE,
        targets |-> {target \in DOMAIN supportedConversions.document :
                       IF ConversionKey(sourceExt, target) \in DOMAIN pythonConversions
                       THEN pythonConversions[ConversionKey(sourceExt, target)] \in scriptsOnDisk
                       ELSE sourceExt \in supportedConversions.document[target]}]

(* --------------------------- file names ------------------------------- *)
\* A file name is [base, stamp, ext]: base is the characters before the
\* timestamp, stamp is <<>> or <<minute>>, ext is the extension with its dot.

\* detectExtByName(filename): path.extname(filename).toLowerCase()
detectExtByName(name) == name.ext

\* path.parse(filename).name, for the names that carry no timestamp
BaseName(name) == name.base

\* characters of a display name that /[^\w\u4e00-\u9fa5\s]/ matches
Punctuation == {"-", ".", "(", ")"}
Whitespace == {" "}

\* originalName.replace(/[^\w\u4e00-\u9fa5\s]/g, '_')
RECURSIVE ReplacePunctuation(_)
ReplacePunctuation(s) ==
  IF s = <<>> THEN <<>>
  ELSE <<IF Head(s) \in Punctuation THEN "_" ELSE Head(s)>> \o ReplacePunctuation(Tail(s))

\* .replace(/\s+/g, '_'): every run of whitespace becomes one underscore
RECURSIVE CollapseWhitespace(_)
CollapseWhitespace(s) ==
  IF s = <<>> THEN <<>>
  ELSE IF Head(s) \in Whitespace
       THEN IF Tail(s) # <<>> /\ Head(Tail(s)) \in Whitespace
            THEN CollapseWhitespace(Tail(s))
            ELSE <<"_">> \o CollapseWhitespace(Tail(s))
       ELSE <<Head(s)>> \o CollapseWhitespace(Tail(s))

\* cleanName of convertAsync
CleanName(originalName) == CollapseWhitespace(ReplacePunctuation(originalName))

\* `${year}${month}${day}${hours}${minutes}` of new Date(): one value per minute
Timestamp(t) == t \div MsPerMinute

\* the name the job's display name falls back to: `document_${task.id.slice(0, 6)}`
\* (job ids are distinct nanoids; their six-character prefixes are taken distinct)
FallbackName(id) == <<"document", "_", ToString(id)>>

\* friendlyName of convertAsync, with the target as extension
FriendlyName(originalFileName, id, t, target) ==
  LET originalName == IF Len(originalFileName) < 2 THEN FallbackName(id)
                      ELSE originalFileName
  IN  [base |-> CleanName(originalName) \o <<"_">>, stamp |-> <<Timestamp(t)>>, ext |-> "." \o target]

\* the name multer gives the uploaded file: `${nanoid()}${ext}`
UploadName(id, ext) == [base |-> <<"upload", ToString(id)>>, stamp |-> <<>>, ext |-> ext]

\* the name LibreOffice gives its output: the input's base name with the target extension
EngineName(inputName, targetExt) == [inputName EXCEPT !.ext = targetExt]

\* the eight-digit strings that occur in file names (a date, YYYYMMDD)
DateTokens == {"20240101"}

\* file.match(/_\d{8}\./): an underscore, exactly eight digits, a dot; the
\* digits are convertAsync's timestamp or an eight-digit part of the name
MatchesFriendlyPattern(name) ==
  \/ /\ name.stamp # <<>>
     /\ Len(name.base) > 0
     /\ name.base[Len(name.base)] = "_"
     /\ TimestampDigits = PatternDigits
  \/ /\ name.stamp = <<>>
     /\ Len(name.base) > 1
     /\ name.base[Len(name.base) - 1] = "_"
     /\ name.base[Len(name.base)] \in DateTokens

(* --------------------------- file system ------------------------------ *)
\* A directory is a function from the names of its files to
\* [size, complete, mtime, by]: size 0 is an empty file, size 1 any
\* non-empty one; complete tells a finished artifact from a partial write;
\* by is the job whose backend process wrote the file.
existsSync(dir, name) == name \in DOMAIN dir
unlinkSync(dir, name) == [n \in DOMAIN dir \ {name} |-> dir[n]]
writeFile(dir, name, file) == (name :> file) @@ dir
renameSync(dir, from, to) == (to :> dir[from]) @@ unlinkSync(dir, from)
\* if (fs.existsSync(p)) fs.unlinkSync(p)
unlinkIfExists(dir, name) == IF existsSync(dir, name) THEN unlinkSync(dir, name) ELSE dir

(* ------------------------- backend invoker ---------------------------- *)
\* What the environment decides about one external process: how exec() ends,
\* what the process wrote, and which of the words the invokers look for are
\* in its stderr.
ExecExits == {"ok", "failed", "timeout"}
ExecWrites ==
  [ok      |-> {"none", "empty", "full"},
   failed  |-> {"none", "empty", "partial"},
   timeout |-> {"none", "empty", "partial"}]
StderrTexts == {<<>>, <<"timeout">>, <<"ModuleNotFoundError">>, <<"ENOENT">>}
ExecOutcomes ==
  {oc \in [exit : ExecExits, wrote : {"none", "empty", "partial", "full"}, stderr : StderrTexts] :
     oc.wrote \in ExecWrites[oc.exit]}

\* the outcomes whose process prints nothing on stderr
QuietOutcomes == {oc \in ExecOutcomes : oc.stderr = <<>>}

Range(s) == {s[i] : i \in DOMAIN s}
\* message.includes(word)
Includes(message, word) == word \in Range(message)

NoError == [message |-> <<>>, killed |-> FALSE]
\* new Error(message)
NewError(message) == [message |-> message, killed |-> FALSE]
\* the error exec() rejects with: "Command failed: <cmd>\n<stderr>", and
\* killed = true when the timeout killed the process
ExecError(cmd, oc) ==
  [message |-> <<"Command failed">> \o cmd \o oc.stderr, killed |-> oc.exit = "timeout"]

\* the directory after the process has written (or not) the file `name`
ProcessWrites(dir, name, wrote, id, t) ==
  IF wrote = "none" THEN dir
  ELSE writeFile(dir, name, [size     |-> IF wrote = "empty" THEN 0 ELSE 1,
                             complete |-> wrote = "full",
                             mtime    |-> t,
                             by       |-> id])

\* runFFmpeg(input, output, targetFormat): the exec continuation
runFFmpeg(dir, output, oc, id, t) ==
  LET written == ProcessWrites(dir, output, oc.wrote, id, t)
  IN  IF oc.exit # "ok"
      THEN [ok |-> FALSE, error |-> ExecError(output.base, oc),
            dir |-> unlinkIfExists(written, output)]
      ELSE IF ~existsSync(written, output)
      THEN [ok |-> FALSE, error |-> NewError(<<"FFmpeg failed: no output file">>),
            dir |-> written]
      ELSE IF written[output].size = 0
      THEN [ok |-> FALSE, error |-> NewError(<<"FFmpeg failed: output file is empty">>),
            dir |-> unlinkSync(written, output)]
      ELSE [ok |-> TRUE, error |-> NoError, dir |-> written]

\* the message runPythonConversion's catch block builds from the error it caught
PythonErrorMessage(error) ==
  IF Includes(error.message, "timeout") THEN <<"conversion timed out, retry">>
  ELSE IF Includes(error.message, "ModuleNotFoundError")
       THEN <<"python dependency missing">>
       ELSE <<"Python conversion failed", " - ">> \o error.message

\* mutant: the command is run without looking for the script file
runPythonConversionMut(dir, scriptsOnDisk, output, conversionKey, oc, id, t) ==
  LET written == ProcessWrites(dir, output, oc.wrote, id, t)
  IN  IF oc.exit = "ok" /\ existsSync(written, output) /\ written[output].size > 0
      THEN [ok |-> TRUE, error |-> NoError, dir |-> written, spawned |-> TRUE]
      ELSE [ok |-> FALSE, error |-> NewError(<<"Python conversion failed">>),
            dir |-> unlinkIfExists(written, output), spawned |-> TRUE]

\* runPythonConversion(input, output, conversionKey)
runPythonConversion(dir, scriptsOnDisk, output, conversionKey, oc, id, t) ==
  IF \/ conversionKey \notin DOMAIN pythonConversions
     \/ pythonConversions[conversionKey] \notin scriptsOnDisk
  THEN [ok |-> FALSE, error |-> NewError(<<"conversion script does not exist">>),
        dir |-> dir, spawned |-> FALSE]
  ELSE
    LET written == ProcessWrites(dir, output, oc.wrote, id, t)
        thrown == IF oc.exit # "ok" THEN ExecError(output.base, oc)
                  ELSE IF ~existsSync(written, output)
                  THEN NewError(<<"Python failed: no output file">>)
                  ELSE IF written[output].size = 0
                  THEN NewError(<<"Python failed: output file is empty">>)
                  ELSE NoError
    IN  IF thrown = NoError
        THEN [ok |-> TRUE, error |-> NoError, dir |-> written, spawned |-> TRUE]
        ELSE [ok |-> FALSE, error |-> NewError(PythonErrorMessage(thrown)),
              dir |-> unlinkIfExists(written, output), spawned |-> TRUE]

\* the message runSoffice's catch block builds from the error it caught
SofficeErrorMessage(error) ==
  IF Includes(error.message, "timeout") THEN <<"document conversion timed out, retry">>
  ELSE IF Includes(error.message, "ENOENT")
       THEN <<"LibreOffice not installed">>
       ELSE <<"document conversion failed: ">> \o error.message

\* the files of the directory with the extension
FilesWithExt(dir, ext) == {n \in DOMAIN dir : n.ext = ext}

\* runSoffice(inputDir, outputDir, targetExt, inputFilename): LibreOffice writes
\* under the input's base name; the check is that the output directory holds
\* some file with the target extension
runSoffice(dir, inputName, targetExt, oc, id, t) ==
  LET written == ProcessWrites(dir, EngineName(inputName, targetExt), oc.wrote, id, t)
      thrown == IF oc.exit # "ok" THEN ExecError(inputName.base, oc)
                ELSE IF FilesWithExt(written, targetExt) = {}
                THEN NewError(<<"LibreOffice failed: no file generated">>)
                ELSE NoError
  IN  IF thrown = NoError
      THEN [ok |-> TRUE, error |-> NoError, dir |-> written]
      ELSE [ok |-> FALSE, error |-> NewError(SofficeErrorMessage(thrown)), dir |-> written]

\* file.includes(originalName): the name holds originalName as a substring
RECURSIVE IsInfix(_, _)
IsInfix(part, whole) ==
  IF Len(part) > Len(whole) THEN FALSE
  ELSE \/ SubSeq(whole, 1, Len(part)) = part
       \/ IsInfix(part, Tail(whole))

\* findActualOutputFile(outputDir, originalName, targetExt): the names it may
\* return ({} stands for null): a file whose name holds originalName, else a
\* most recently modified file with the extension
findActualOutputFile(dir, originalName, targetExt) ==
  LET files == FilesWithExt(dir, targetExt)
      relatedFiles == {f \in files : IsInfix(originalName, f.base)}
  IN  IF relatedFiles # {} THEN relatedFiles
      ELSE {f \in files : \A g \in files : dir[g].mtime <= dir[f].mtime}

\* what a call of runDocumentConversion comes to: the invoker it reached
\* (via), whether an external process was started, and the invoker's result
Routed(via, spawned, r, dir) ==
  [ok |-> r.ok, error |-> r.error, dir |-> dir, via |-> via, spawned |-> spawned]

\* mutant: a pair of the static table goes to LibreOffice, its script or not
runDocumentConversionMut(dir, scriptsOnDisk, inputName, output, sourceExt, targetFormat, oc, id, t) ==
  IF /\ ConversionKey(sourceExt, targetFormat) \in DOMAIN pythonConversions
     /\ ~(/\ targetFormat \in DOMAIN supportedConversions.document
          /\ sourceExt \in supportedConversions.document[targetFormat])
  THEN LET r == runPythonConversion(dir, scriptsOnDisk, output,
                                    ConversionKey(sourceExt, targetFormat), oc, id, t)
       IN  {Routed("python", r.spawned, r, r.dir)}
  ELSE LET r == runSoffice(dir, inputName, "." \o targetFormat, oc, id, t)
       IN  {Routed("soffice", TRUE, r, r.dir)}

\* runDocumentConversion(input, output, sourceExt, targetFormat): the results it may have
runDocumentConversion(dir, scriptsOnDisk, inputName, output, sourceExt, targetFormat, oc, id, t) ==
  IF ConversionKey(sourceExt, targetFormat) \in DOMAIN pythonConversions
  THEN LET r == runPythonConversion(dir, scriptsOnDisk, output,
                                    ConversionKey(sourceExt, targetFormat), oc, id, t)
       IN  {Routed("python", r.spawned, r, r.dir)}
  ELSE LET r == runSoffice(dir, inputName, "." \o targetFormat, oc, id, t)
           found == findActualOutputFile(r.dir, BaseName(inputName), "." \o targetFormat)
       IN  IF ~r.ok \/ found = {} THEN {Routed("soffice", TRUE, r, r.dir)}
           ELSE {Routed("soffice", TRUE, r,
                        IF actualOutput # output
                        THEN renameSync(r.dir, actualOutput, output)
                        ELSE r.dir) : actualOutput \in found}

(* ------------------------------ state --------------------------------- *)
VARIABLES
  taskObj,       \* the ConvertTask objects created so far, by job id
  tasks,         \* the ids that are keys of the `tasks` Map (each maps to taskObj[id])
  queue,         \* the functions waiting in convertLimiter, oldest first
  active,        \* the jobs holding a convertLimiter slot (activeCount)
  pc,            \* where each job's convertAsync call is
  outputOf,      \* the outputPath local of each running convertAsync call
  catchPending,  \* job -> the error its limiter promise rejected with, .catch handler not yet run
  uploadDir,     \* the files of the upload directory
  publicDir,     \* the files of the public directory
  scripts,       \* the conversion scripts present on disk
  now,           \* Date.now()
  ticks,         \* clock advances so far
  admitted,      \* the jobs in the order convertAsync started for them
  lastInvoke,    \* the call made last of the unit taken on its own, and what it returned
  response,      \* the HTTP response sent last (<<>> before the first)
  workload       \* the submissions the clients of this run make

vars == <<taskObj, tasks, queue, active, pc, outputOf, catchPending, uploadDir,
          publicDir, scripts, now, ticks, admitted, lastInvoke, response, workload>>

Created == DOMAIN taskObj

\* the Task Store as readers see it
Store == [id \in tasks |-> taskObj[id]]

\* task.field = value on the object (optional fields appear when first set)
SetField(t, field, value) == (field :> value) @@ t
IsSet(t, field) == field \in DOMAIN t

(* --------------------------- submissions ------------------------------ *)
\* A submission: category, actual extension, target and the display name of
\* the uploaded file (without extension).
AudioRequest ==
  [category |-> "audio", ext |-> ".wav", target |-> "mp3", name |-> <<"a", " ", "b">>]
\* html -> pdf has a pythonConversions entry: the named script handles it
ScriptRequest ==
  [category |-> "document", ext |-> ".html", target |-> "pdf", name |-> <<"a", " ", "b">>]
\* docx -> pdf has none: LibreOffice handles it
EngineRequest ==
  [category |-> "document", ext |-> ".docx", target |-> "pdf", name |-> <<"a", " ", "b">>]
\* a display name shorter than two characters: the output name falls back to the id
ShortNameRequest ==
  [category |-> "document", ext |-> ".docx", target |-> "pdf", name |-> <<"x">>]

\* what the clients of one run submit: audio only, or the two document
\* backends sharing the .pdf target
Workloads == { {AudioRequest}, {ScriptRequest, EngineRequest} }
\* the clients of a run of the gate alone: both categories, distinct output names
GateWorkload == {AudioRequest, ShortNameRequest}

\* the state after the module has loaded, before any request
InitState ==
  /\ taskObj = <<>>
  /\ tasks = {}
  /\ queue = <<>>
  /\ active = {}
  /\ pc = [j \in Jobs |-> "none"]
  /\ outputOf = <<>>
  /\ catchPending = <<>>
  /\ uploadDir = <<>>
  /\ publicDir = <<>>
  /\ scripts = AllScripts
  /\ now = 0
  /\ ticks = 0
  /\ admitted = <<>>
  /\ lastInvoke = <<>>
  /\ response = <<>>

Init == InitState /\ workload \in Workloads

\* mutant: the limiter starts every function at once
SlotFreeMut == TRUE

\* the limiter may start a waiting function: activeCount < concurrency
SlotFree == Cardinality(active) < maxConcurrent

\* mutant: the limiter gives the slot back only when the function's promise fulfils
SlotDueMut(j) == pc[j] = "settled" /\ taskObj[j].state = "finished"

\* the limiter's reaction to job j's convertAsync promise is due: the promise
\* has settled, fulfilled or rejected
SlotDue(j) == pc[j] = "settled"

\* a promise reaction is due: it runs before any request, timer or exec callback
MicrotaskPending ==
  \/ DOMAIN catchPending # {}
  \/ \E j \in active : SlotDue(j)
  \/ queue # <<>> /\ SlotFree

\* the clock advances between callbacks
Tick(d) ==
  /\ ~MicrotaskPending
  /\ ticks < MaxTicks
  /\ now' = now + d
  /\ ticks' = ticks + 1
  /\ UNCHANGED <<taskObj, tasks, queue, active, pc, outputOf, catchPending,
                 uploadDir, publicDir, scripts, admitted, lastInvoke, response, workload>>

\* res.json({ taskId: id, message }) of the upload route
Accepted(id) == [status |-> 200, taskId |-> id]

\* POST /convert/upload, accepted: multer has stored the file, the handler
\* creates the task, puts it in the Map and hands convertAsync to the limiter
Upload(req, limit) ==
  LET id == Cardinality(Created) + 1
      inputPath == UploadName(id, req.ext)
      task == [id |-> id, state |-> "queued", createdAt |-> now, updatedAt |-> now,
               category |-> req.category, target |-> req.target,
               source |-> StripDot(req.ext), inputPath |-> inputPath,
               originalFileName |-> req.name]
  IN  /\ ~MicrotaskPending
      /\ id <= limit
      /\ req \in workload
      /\ isConversionSupported(scripts, req.category, req.ext, req.target)
      /\ uploadDir' = writeFile(uploadDir, inputPath,
                                [size |-> 1, complete |-> TRUE, mtime |-> now, by |-> id])
      /\ taskObj' = (id :> task) @@ taskObj
      /\ tasks' = tasks \cup {id}
      /\ queue' = Append(queue, id)
      /\ pc' = [pc EXCEPT ![id] = "waiting"]
      /\ response' = Accepted(id)
      /\ UNCHANGED <<active, outputOf, catchPending, publicDir, scripts, now, ticks,
                     admitted, lastInvoke, workload>>

\* res.status(400).json({ message }) of the upload route, with the path multer
\* stored the request's file under (req.file.path)
Rejected(message, inputPath) == [status |-> 400, message |-> message, upload |-> inputPath]

\* the uploaded files in the directory that belong to no job
StrayUploads == {n \in DOMAIN uploadDir : uploadDir[n].by <= 0}

\* the path multer stores the file of a request under when no job comes of
\* it: `${nanoid()}${ext}` again, an id no other file carries
StrayName(ext) == UploadName(0 - Cardinality(StrayUploads), ext)

\* multer has stored the file of the request before the handler runs
StoredUpload(ext) ==
  writeFile(uploadDir, StrayName(ext), [size |-> 1, complete |-> TRUE, mtime |-> now, by |-> 0])

\* mutant: the rejected upload is left where it is
DiscardUploadMut(dir, inputPath) == dir

\* if (fs.existsSync(inputPath)) fs.unlinkSync(inputPath) of the rejections
DiscardUpload(dir, inputPath) == unlinkIfExists(dir, inputPath)

\* the source format the frontend may declare next to the file
DeclaredSources == {"", "wav", "mp3", "docx"}

\* POST /convert/upload without category or target (lines 185-186): answered
\* 400; the stored file is not touched
UploadMissingFields(req) ==
  /\ ~MicrotaskPending
  /\ Cardinality(StrayUploads) < MaxStrays
  /\ uploadDir' = StoredUpload(req.ext)
  /\ response' = Rejected("missing fields", StrayName(req.ext))
  /\ UNCHANGED <<taskObj, tasks, queue, active, pc, outputOf, catchPending, publicDir,
                 scripts, now, ticks, admitted, lastInvoke, workload>>

\* POST /convert/upload whose declared source format is not the file's
\* extension (lines 188-201): the stored file is removed, answered 400
UploadMismatch(req, declared) ==
  /\ ~MicrotaskPending
  /\ declared # ""
  /\ declared # StripDot(detectExtByName(StrayName(req.ext)))
  /\ uploadDir' = DiscardUpload(StoredUpload(req.ext), StrayName(req.ext))
  /\ response' = Rejected("format mismatch", StrayName(req.ext))
  /\ UNCHANGED <<taskObj, tasks, queue, active, pc, outputOf, catchPending, publicDir,
                 scripts, now, ticks, admitted, lastInvoke, workload>>

\* POST /convert/upload for a conversion the router refuses (lines 217-229):
\* the stored file is removed, answered 400
UploadUnsupported(req, declared) ==
  /\ ~MicrotaskPending
  /\ declared = "" \/ declared = StripDot(detectExtByName(StrayName(req.ext)))
  /\ ~isConversionSupported(scripts, req.category, req.ext, req.target)
  /\ uploadDir' = DiscardUpload(StoredUpload(req.ext), StrayName(req.ext))
  /\ response' = Rejected("unsupported conversion", StrayName(req.ext))
  /\ UNCHANGED <<taskObj, tasks, queue, active, pc, outputOf, catchPending, publicDir,
                 scripts, now, ticks, admitted, lastInvoke, workload>>

\* mutant: the limiter starts the newest waiting function
NextInQueueMut == queue[Len(queue)]

\* the limiter starts the oldest waiting function
NextInQueue == Head(queue)

\* mutant: the started function stays in the limiter's queue
DequeueMut(q, j) == q

\* the limiter takes the function it starts out of its queue
Dequeue(q, j) == SelectSeq(q, LAMBDA x : x # j)

\* convertLimiter starts convertAsync(task); convertAsync runs to its first await:
\* state processing, the friendly output name from the clock, the backend spawned
Dispatch ==
  /\ queue # <<>>
  /\ SlotFree
  /\ LET j == NextInQueue
         t == taskObj[j]
     IN  /\ queue' = Dequeue(queue, j)
         /\ active' = active \cup {j}
         /\ taskObj' = [taskObj EXCEPT ![j] =
                          SetField(SetField(t, "state", "processing"), "updatedAt", now)]
         /\ tasks' = tasks \cup {j}
         /\ outputOf' = (j :> FriendlyName(t.originalFileName, t.id, now, t.target)) @@ outputOf
         /\ pc' = [pc EXCEPT ![j] = "running"]
         /\ admitted' = Append(admitted, j)
  /\ UNCHANGED <<catchPending, uploadDir, publicDir, scripts, now, ticks, lastInvoke, response, workload>>

(* ------------------------- task orchestrator -------------------------- *)
\* which backend convertAsync's call reaches for the task
BackendOf(t) ==
  IF t.category = "audio" THEN "ffmpeg"
  ELSE IF ConversionKey(detectExtByName(t.inputPath), t.target) \in DOMAIN pythonConversions
       THEN "python" ELSE "soffice"

\* what the awaited backend call of convertAsync may return for the task
InvokeResults(t, output, oc) ==
  IF t.category = "audio"
  THEN {runFFmpeg(publicDir, output, oc, t.id, now)}
  ELSE runDocumentConversion(publicDir, scripts, t.inputPath, output,
                             detectExtByName(t.inputPath), t.target, oc, t.id, now)

\* buildPublicUrl / buildDownloadUrl / buildPreviewUrl of the output's base name
buildUrl(route, output) == [route |-> route, file |-> output]

\* mutant: the input path is pointed at the output
FinishedTaskRepointed(t, output, t_now) ==
  ("state" :> "finished") @@ ("updatedAt" :> t_now) @@ ("inputPath" :> output) @@
  ("outputPath" :> output) @@ ("url" :> buildUrl("public", output)) @@
  ("downloadUrl" :> buildUrl("download", output)) @@
  ("previewUrl" :> buildUrl("preview", output)) @@ t

\* mutant: the state is written before the URLs are
FinishedTaskTorn(t, output, t_now) ==
  ("state" :> "finished") @@ ("updatedAt" :> t_now) @@ ("outputPath" :> output) @@ t

\* mutant: the output path is not recorded on the task
FinishedTaskMut(t, output, t_now) ==
  ("state" :> "finished") @@ ("updatedAt" :> t_now) @@
  ("url" :> buildUrl("public", output)) @@ t

\* convertAsync after a successful backend call (lines 323-351): output path,
\* URLs, state finished
FinishedTask(t, output, t_now) ==
  ("state" :> "finished") @@ ("updatedAt" :> t_now) @@
  ("outputPath" :> output) @@ ("url" :> buildUrl("public", output)) @@
  ("downloadUrl" :> buildUrl("download", output)) @@
  ("previewUrl" :> buildUrl("preview", output)) @@ t

\* mutant: the catch block does not write the time
ErrorTaskStale(t, error, t_now) ==
  ("state" :> "error") @@ ("error" :> error.message) @@ t

\* mutant: the catch block records the message and leaves the state
ErrorTaskMut(t, error, t_now) ==
  ("error" :> error.message) @@ ("updatedAt" :> t_now) @@ t

\* convertAsync's catch block (lines 366-369)
ErrorTask(t, error, t_now) ==
  ("state" :> "error") @@ ("error" :> error.message) @@ ("updatedAt" :> t_now) @@ t

\* mutant: the input file is left where it is
InputCleanupMut(dir, t) == dir

\* convertAsync after the record is stored, on success (lines 356-363) and on
\* failure (lines 373-380): the input file is removed if it is still there
InputCleanup(dir, t) == unlinkIfExists(dir, t.inputPath)

\* The exec() callback of job j's backend process and everything convertAsync
\* does after its await: the invoker's checks and cleanup, then either the
\* finished record or the error record, the task put back in the Map, the
\* input file removed, and on failure the error thrown on to the limiter.
ExecDone(j, oc) ==
  /\ ~MicrotaskPending
  /\ pc[j] = "running"
  /\ \E r \in InvokeResults(taskObj[j], outputOf[j], oc) :
       /\ publicDir' = r.dir
       /\ taskObj' = [taskObj EXCEPT ![j] =
                        IF r.ok THEN FinishedTask(@, outputOf[j], now)
                        ELSE ErrorTask(@, r.error, now)]
       /\ catchPending' = IF r.ok THEN catchPending ELSE (j :> r.error) @@ catchPending
  /\ tasks' = tasks \cup {j}
  /\ uploadDir' = InputCleanup(uploadDir, taskObj[j])
  /\ pc' = [pc EXCEPT ![j] = "settled"]
  /\ UNCHANGED <<queue, active, outputOf, scripts, now, ticks, admitted, lastInvoke, response, workload>>

\* the limiter's reaction to the settled convertAsync promise: the slot is given back
Release(j) ==
  /\ j \in active
  /\ SlotDue(j)
  /\ active' = active \ {j}
  /\ UNCHANGED <<taskObj, tasks, queue, pc, outputOf, catchPending, uploadDir,
                 publicDir, scripts, now, ticks, admitted, lastInvoke, response, workload>>

\* mutant: the handler is attached for fulfilment as well as rejection
CatchDueMut == DOMAIN catchPending \cup {j \in Created : pc[j] = "settled"}

\* the jobs whose .catch handler of the upload route is due
CatchDue == DOMAIN catchPending

\* the err the handler is called with (err?.message allows for none)
RejectionOf(j) == IF j \in DOMAIN catchPending THEN catchPending[j] ELSE NoError

\* what the .catch handler writes to the task it finds in the Map:
\* state error, err?.message || String(err), the time
CaughtTask(t, err, t_now) ==
  ("state" :> "error") @@
  ("error" :> IF err.message # <<>> THEN err.message ELSE <<"Error">>) @@
  ("updatedAt" :> t_now) @@ t

\* the .catch handler of the upload route (lines 248-257)
FallbackCatch(j) ==
  /\ j \in CatchDue
  /\ catchPending' = [k \in DOMAIN catchPending \ {j} |-> catchPending[k]]
  /\ IF j \in tasks
     THEN taskObj' = [taskObj EXCEPT ![j] = CaughtTask(@, RejectionOf(j), now)]
     ELSE UNCHANGED taskObj
  /\ UNCHANGED <<tasks, queue, active, pc, outputOf, uploadDir, publicDir, scripts,
                 now, ticks, admitted, lastInvoke, response, workload>>

(* ---------------------------- status query ---------------------------- *)
\* res.status(404) of GET /convert/task/:id
NotFound == [status |-> 404]

\* the body GET /convert/task/:id answers with for a task of the Map: state,
\* the URL fields that are set, and the error as message
StatusBody(t) ==
  [f \in {"state", "url", "downloadUrl", "previewUrl"} \cap DOMAIN t |-> t[f]] @@
  (IF IsSet(t, "error") THEN "message" :> t.error ELSE <<>>) @@
  ("status" :> 200)

\* GET /convert/task/:id: what a query for the id is answered now
StatusOf(id) == IF id \notin tasks THEN NotFound ELSE StatusBody(taskObj[id])

(* ---------------------------- expiry sweeper --------------------------- *)
\* mutant: the age of a job is counted from its last update
ExpiredMut(t) == {id \in tasks : t - taskObj[id].updatedAt > fileExpireTime}

\* the jobs the tracked pass of cleanupExpiredFiles removes at time t
Expired(t) == {id \in tasks : t - taskObj[id].createdAt > fileExpireTime}

\* mutant: the pass ends after the first file it unlinks
cleanupOrphanedFilesMut(dir, maxAge, t) ==
  LET deleted == {n \in DOMAIN dir : /\ t - dir[n].mtime > maxAge
                                     /\ ~MatchesFriendlyPattern(n)}
      first == IF deleted = {} THEN {} ELSE {CHOOSE n \in deleted : TRUE}
  IN  [n \in DOMAIN dir \ first |-> dir[n]]

\* cleanupOrphanedFiles(directory, maxAge, dirName): the directory after the pass
cleanupOrphanedFiles(dir, maxAge, t) ==
  LET deleted == {n \in DOMAIN dir : /\ t - dir[n].mtime > maxAge
                                     /\ ~MatchesFriendlyPattern(n)}
  IN  [n \in DOMAIN dir \ deleted |-> dir[n]]

\* the files the tracked pass deletes: input paths, and output paths where set
ExpiredInputs(t) == {taskObj[id].inputPath : id \in Expired(t)}
ExpiredOutputs(t) == {taskObj[id].outputPath : id \in {e \in Expired(t) : IsSet(taskObj[e], "outputPath")}}

\* cleanupExpiredFiles(): the timer callback, the startup call and POST /cleanup
cleanupExpiredFiles ==
  /\ ~MicrotaskPending
  /\ tasks' = tasks \ Expired(now)
  /\ uploadDir' = cleanupOrphanedFiles(
                     [n \in DOMAIN uploadDir \ ExpiredInputs(now) |-> uploadDir[n]],
                     uploadsOrphanAge, now)
  /\ publicDir' = cleanupOrphanedFiles(
                     [n \in DOMAIN publicDir \ ExpiredOutputs(now) |-> publicDir[n]],
                     publicOrphanAge, now)
  /\ UNCHANGED <<taskObj, queue, active, pc, outputOf, catchPending, scripts, now,
                 ticks, admitted, lastInvoke, response, workload>>

Next ==
  \/ \E d \in ClockSteps : Tick(d)
  \/ \E req \in workload : Upload(req, MaxJobs)
  \/ Dispatch
  \/ \E j \in Jobs, oc \in QuietOutcomes : ExecDone(j, oc)
  \/ \E j \in Jobs : Release(j)
  \/ \E j \in Jobs : FallbackCatch(j)
  \/ cleanupExpiredFiles

Spec == Init /\ [][Next]_vars

(* ------------------------- the gate on its own ------------------------- *)
\* The limiter under more submissions than it has slots plus one, so that
\* several functions wait at once; the clock stands still and no sweep runs.
\* a backend that completes, fails or is cut off by the timeout
GateOutcomes == {oc \in QuietOutcomes : oc.wrote = IF oc.exit = "ok" THEN "full" ELSE "none"}

InitGate == InitState /\ workload = GateWorkload

NextGate ==
  \/ \E req \in workload : Upload(req, GateJobs)
  \/ Dispatch
  \/ \E j \in Jobs, oc \in GateOutcomes : ExecDone(j, oc)
  \/ \E j \in Jobs : Release(j)
  \/ \E j \in Jobs : FallbackCatch(j)

SpecGate == InitGate /\ [][NextGate]_vars
(* ----------------------- the sweeper after a restart ------------------- *)
\* The process starts with an empty Map over directories that hold files of
\* an earlier run: the artifact of a successful conversion, a file with a
\* date in its name, an uploaded input; then serves submissions while the
\* clock advances and the sweeper runs.
SweepJobs == 1

DatedName == [base |-> <<"r", "_", "20240101">>, stamp |-> <<>>, ext |-> ".pdf"]
LeftoverFile == [size |-> 1, complete |-> TRUE, mtime |-> 0, by |-> 0]
LeftoverNames ==
  {FriendlyName(<<"o", "l", "d">>, 0, 0, "pdf"), DatedName, UploadName(0, ".docx")}
LeftoverDirs == {[n \in names |-> LeftoverFile] : names \in SUBSET LeftoverNames}

InitSweep ==
  /\ taskObj = <<>>
  /\ tasks = {}
  /\ queue = <<>>
  /\ active = {}
  /\ pc = [j \in Jobs |-> "none"]
  /\ outputOf = <<>>
  /\ catchPending = <<>>
  /\ uploadDir \in LeftoverDirs
  /\ publicDir \in LeftoverDirs
  /\ scripts = AllScripts
  /\ now = 0
  /\ ticks = 0
  /\ admitted = <<>>
  /\ lastInvoke = <<>>
  /\ response = <<>>
  /\ workload = {AudioRequest}

NextSweep ==
  \/ \E d \in ClockSteps : Tick(d)
  \/ \E req \in workload : Upload(req, SweepJobs)
  \/ Dispatch
  \/ \E j \in Jobs, oc \in QuietOutcomes : ExecDone(j, oc)
  \/ \E j \in Jobs : Release(j)
  \/ \E j \in Jobs : FallbackCatch(j)
  \/ cleanupExpiredFiles

SpecSweep == InitSweep /\ [][NextSweep]_vars

\* The gate under the scheduling Node.js gives: every external process
\* returns or is killed by exec's timeout, so each running job's exec
\* callback comes; the event loop runs every promise reaction that is due.
FairGate ==
  /\ SpecGate
  /\ WF_vars(Dispatch)
  /\ \A j \in Jobs : /\ WF_vars(\E oc \in GateOutcomes : ExecDone(j, oc))
                     /\ WF_vars(Release(j))
                     /\ WF_vars(FallbackCatch(j))

(* ----------------------- the upload route's answers -------------------- *)
\* Submissions that are accepted and submissions that are rejected, while
\* accepted jobs wait, run, complete and fail; the clock stands still.
UnsupportedRequest ==
  [category |-> "document", ext |-> ".xyz", target |-> "pdf", name |-> <<"a", " ", "b">>]
ApiWorkload == {AudioRequest, EngineRequest, UnsupportedRequest}

InitApi == InitState /\ workload = ApiWorkload

NextApi ==
  \/ \E req \in workload : Upload(req, ApiJobs)
  \/ \E req \in workload : UploadMissingFields(req)
  \/ \E req \in workload, declared \in DeclaredSources : UploadMismatch(req, declared)
  \/ \E req \in workload, declared \in DeclaredSources : UploadUnsupported(req, declared)
  \/ Dispatch
  \/ \E j \in Jobs, oc \in GateOutcomes : ExecDone(j, oc)
  \/ \E j \in Jobs : Release(j)
  \/ \E j \in Jobs : FallbackCatch(j)

SpecApi == InitApi /\ [][NextApi]_vars

\* The sweeper after a restart under the scheduling Node.js gives: the
\* setInterval timer runs cleanupExpiredFiles again and again, and pending
\* promise reactions run before it.
FairSweep ==
  /\ SpecSweep
  /\ WF_vars(cleanupExpiredFiles)
  /\ WF_vars(Dispatch)
  /\ \A j \in Jobs : WF_vars(Release(j)) /\ WF_vars(FallbackCatch(j))

(* ------------------- the sweeper over failing file calls --------------- *)
\* As the sweeper after a restart, but statSync / unlinkSync throw for the
\* files in `failing` (held open, permissions): each such call is inside a
\* try block of its own, whose catch logs the error.

\* the directory after the tracked pass has tried to unlink the names
TrackedPass(dir, names, failing) == [n \in DOMAIN dir \ (names \ failing) |-> dir[n]]

\* cleanupOrphanedFiles where stat or unlink of the failing files throws
OrphanPass(dir, maxAge, t, failing) ==
  LET kept == cleanupOrphanedFiles(dir, maxAge, t)
  IN  [n \in DOMAIN kept \cup (DOMAIN dir \cap failing) |-> dir[n]]

\* mutant: a job whose file could not be unlinked stays in the store
SweptMut(failing) ==
  [tasks     |-> tasks \ {id \in Expired(now) :
                            /\ taskObj[id].inputPath \notin failing \cap DOMAIN uploadDir
                            /\ ~ /\ IsSet(taskObj[id], "outputPath")
                                 /\ taskObj[id].outputPath \in failing \cap DOMAIN publicDir},
   uploadDir |-> OrphanPass(TrackedPass(uploadDir, ExpiredInputs(now), failing),
                            uploadsOrphanAge, now, failing),
   publicDir |-> OrphanPass(TrackedPass(publicDir, ExpiredOutputs(now), failing),
                            publicOrphanAge, now, failing)]

\* the store and the directories after cleanupExpiredFiles has run over the
\* failing files
Swept(failing) ==
  [tasks     |-> tasks \ Expired(now),
   uploadDir |-> OrphanPass(TrackedPass(uploadDir, ExpiredInputs(now), failing),
                            uploadsOrphanAge, now, failing),
   publicDir |-> OrphanPass(TrackedPass(publicDir, ExpiredOutputs(now), failing),
                            publicOrphanAge, now, failing)]

\* cleanupExpiredFiles() while the calls on the failing files throw
SweepWithFaults(failing) ==
  /\ ~MicrotaskPending
  /\ tasks' = Swept(failing).tasks
  /\ uploadDir' = Swept(failing).uploadDir
  /\ publicDir' = Swept(failing).publicDir
  /\ UNCHANGED <<taskObj, queue, active, pc, outputOf, catchPending, scripts, now,
                 ticks, admitted, lastInvoke, response, workload>>

NextSweepFaults ==
  \/ \E d \in ClockSteps : Tick(d)
  \/ \E req \in workload : Upload(req, SweepJobs)
  \/ Dispatch
  \/ \E j \in Jobs, oc \in QuietOutcomes : ExecDone(j, oc)
  \/ \E j \in Jobs : Release(j)
  \/ \E j \in Jobs : FallbackCatch(j)
  \/ \E failing \in SUBSET (DOMAIN uploadDir \cup DOMAIN publicDir) : SweepWithFaults(failing)

SpecSweepFaults == InitSweep /\ [][NextSweepFaults]_vars

(* ------------------- scripts that go missing on disk ------------------- *)
\* Document submissions are accepted while their scripts are on disk; script
\* files are then removed from disk while accepted jobs wait for a slot.
\* runPythonConversion looks for the script file in the synchronous run that
\* starts the job, so the removal of a script whose process is running goes
\* unnoticed by that job and is left out.
ScriptWorkload == {ScriptRequest, EngineRequest}

InitScripts == InitState /\ workload = ScriptWorkload

\* a script file is deleted from disk, seen next by fs.existsSync(pythonScript.script)
RemoveScript(sc) ==
  /\ ~MicrotaskPending
  /\ sc \in scripts
  /\ \A j \in Created :
       pc[j] = "running" /\ BackendOf(taskObj[j]) = "python" =>
         pythonConversions[ConversionKey(detectExtByName(taskObj[j].inputPath),
                                         taskObj[j].target)] # sc
  /\ scripts' = scripts \ {sc}
  /\ UNCHANGED <<taskObj, tasks, queue, active, pc, outputOf, catchPending, uploadDir,
                 publicDir, now, ticks, admitted, lastInvoke, response, workload>>

NextScripts ==
  \/ \E req \in workload : Upload(req, MaxJobs)
  \/ \E sc \in {pythonConversions[ConversionKey(req.ext, req.target)] :
                  req \in {ScriptRequest}} : RemoveScript(sc)
  \/ Dispatch
  \/ \E j \in Jobs, oc \in GateOutcomes : ExecDone(j, oc)
  \/ \E j \in Jobs : Release(j)
  \/ \E j \in Jobs : FallbackCatch(j)

SpecScripts == InitScripts /\ [][NextScripts]_vars

(* ------------------- the clock within one callback -------------------- *)
\* Date.now() is the wall clock: it moves on while a callback runs its
\* synchronous file calls, so two reads in one turn of the event loop (the
\* catch block of convertAsync, then the .catch handler of the upload route
\* after existsSync / unlinkSync of the input) need not agree.
ClockGrain == 1

\* the wall clock moves on, whatever is pending
Elapse(d) ==
  /\ ticks < MaxTicks
  /\ now' = now + d
  /\ ticks' = ticks + 1
  /\ UNCHANGED <<taskObj, tasks, queue, active, pc, outputOf, catchPending,
                 uploadDir, publicDir, scripts, admitted, lastInvoke, response, workload>>

NextElapse ==
  \/ \E req \in workload : Upload(req, ApiJobs)
  \/ Dispatch
  \/ \E j \in Jobs, oc \in GateOutcomes : ExecDone(j, oc)
  \/ \E j \in Jobs : Release(j)
  \/ \E j \in Jobs : FallbackCatch(j)
  \/ Elapse(ClockGrain)

SpecElapse == InitGate /\ [][NextElapse]_vars

(* ------------------------- the router on its own ----------------------- *)
\* One call of isConversionSupported, for every category, source extension
\* and target of the tables (and one of each that is in none), with all the
\* scripts on disk, one missing, or none.
Categories == {"document", "audio", "image"}
SourceExts == DOMAIN ExtNames \ {""}
TargetFormats ==
  DOMAIN supportedConversions.document \cup DOMAIN supportedConversions.audio \cup {"xyz"}
ScriptSets == {AllScripts, {}} \cup {AllScripts \ {sc} : sc \in AllScripts}

InitRouter ==
  /\ taskObj = <<>>
  /\ tasks = {}
  /\ queue = <<>>
  /\ active = {}
  /\ pc = [j \in Jobs |-> "none"]
  /\ outputOf = <<>>
  /\ catchPending = <<>>
  /\ uploadDir = <<>>
  /\ publicDir = <<>>
  /\ scripts \in ScriptSets
  /\ now = 0
  /\ ticks = 0
  /\ admitted = <<>>
  /\ lastInvoke = <<>>
  /\ response = <<>>
  /\ workload = {}

\* the upload route asks the router (index.ts:217)
RouteCheck(category, sourceExt, targetFormat) ==
  /\ lastInvoke = <<>>
  /\ lastInvoke' = [category |-> category, sourceExt |-> sourceExt, target |-> targetFormat,
                    supported |-> isConversionSupported(scripts, category, sourceExt, targetFormat)]
  /\ UNCHANGED <<taskObj, tasks, queue, active, pc, outputOf, catchPending, uploadDir,
                 publicDir, scripts, now, ticks, admitted, response, workload>>

NextRouter ==
  \E category \in Categories, sourceExt \in SourceExts, targetFormat \in TargetFormats :
    RouteCheck(category, sourceExt, targetFormat)

SpecRouter == InitRouter /\ [][NextRouter]_vars

(* ------------------- the router's two operations ---------------------- *)
\* POST /detect-targets with a category and a file of every extension, with
\* all the scripts on disk, one missing, or none: the handler asks
\* getSupportedTargets and removes the stored file; when the call throws, the
\* handler's catch answers 500 and the file stays. Next to the answer, what
\* isConversionSupported says of every target for the same category and file.
DetectTargets(category, sourceExt) ==
  LET r == getSupportedTargets(scripts, category, sourceExt)
  IN  /\ lastInvoke = <<>>
      /\ lastInvoke' = [category |-> category, sourceExt |-> sourceExt,
                        threw |-> r.threw, targets |-> r.targets,
                        supported |-> {target \in TargetFormats :
                                         isConversionSupported(scripts, category, sourceExt, target)}]
      /\ uploadDir' = IF r.threw THEN StoredUpload(sourceExt)
                      ELSE DiscardUpload(StoredUpload(sourceExt), StrayName(sourceExt))
      /\ response' = IF r.threw THEN [status |-> 500]
                     ELSE [status |-> 200, supportedTargets |-> r.targets]
      /\ UNCHANGED <<taskObj, tasks, queue, active, pc, outputOf, catchPending,
                     publicDir, scripts, now, ticks, admitted, workload>>

NextTargets ==
  \E category \in Categories, sourceExt \in SourceExts : DetectTargets(category, sourceExt)

SpecTargets == InitRouter /\ [][NextTargets]_vars

(* ------------------- router and dispatch of document pairs ------------- *)
\* For every document pair, with all the scripts on disk, one missing, or
\* none: what the router answers, and which invoker a call of
\* runDocumentConversion for the pair reaches.
RouteAndRun(sourceExt, targetFormat, oc) ==
  LET inputPath == UploadName(1, sourceExt)
      output == FriendlyName(<<"a", " ", "b">>, 1, now, targetFormat)
  IN  /\ lastInvoke = <<>>
      /\ \E r \in runDocumentConversion(publicDir, scripts, inputPath, output,
                                         sourceExt, targetFormat, oc, 1, now) :
           /\ publicDir' = r.dir
           /\ lastInvoke' = [sourceExt |-> sourceExt, target |-> targetFormat,
                             supported |-> isConversionSupported(scripts, "document",
                                                                 sourceExt, targetFormat),
                             via |-> r.via, spawned |-> r.spawned, ok |-> r.ok]
      /\ UNCHANGED <<taskObj, tasks, queue, active, pc, outputOf, catchPending, uploadDir,
                     scripts, now, ticks, admitted, response, workload>>

NextDispatch ==
  \E sourceExt \in SourceExts, targetFormat \in DOMAIN supportedConversions.document,
     oc \in GateOutcomes :
    RouteAndRun(sourceExt, targetFormat, oc)

SpecDispatch == InitRouter /\ [][NextDispatch]_vars

(* --------------------- the backend invoker on its own ------------------ *)
\* One call of runFFmpeg or runDocumentConversion on behalf of job 1, for
\* every outcome of the external process, in an output directory that is
\* empty or holds the finished artifact of another job.

OtherOutput == FriendlyName(<<"o", "l", "d">>, 2, 0, "pdf")
InitialDirs ==
  { <<>>,
    OtherOutput :> [size |-> 1, complete |-> TRUE, mtime |-> 0, by |-> 2] }

InitInvoker ==
  /\ InitState
  /\ workload = {AudioRequest, ScriptRequest, EngineRequest}

\* the directory the invocation starts in is chosen first
PrepareDir(dir, scriptsOnDisk) ==
  /\ lastInvoke = <<>>
  /\ publicDir = <<>>
  /\ scripts = AllScripts
  /\ dir # <<>> \/ scriptsOnDisk # AllScripts
  /\ publicDir' = dir
  /\ scripts' = scriptsOnDisk
  /\ UNCHANGED <<taskObj, tasks, queue, active, pc, outputOf, catchPending, uploadDir,
                 now, ticks, admitted, lastInvoke, response, workload>>

\* the backend call convertAsync makes for a task built from the request
Invoke(req, oc) ==
  LET inputPath == UploadName(1, req.ext)
      output == FriendlyName(req.name, 1, now, req.target)
      t == [id |-> 1, category |-> req.category, target |-> req.target,
            source |-> StripDot(req.ext), inputPath |-> inputPath]
  IN  /\ lastInvoke = <<>>
      /\ req \in workload
      /\ \E r \in InvokeResults(t, output, oc) :
           /\ publicDir' = r.dir
           /\ lastInvoke' = [id |-> t.id, backend |-> BackendOf(t), oc |-> oc, output |-> output,
                             ok |-> r.ok, error |-> r.error]
      /\ UNCHANGED <<taskObj, tasks, queue, active, pc, outputOf, catchPending, uploadDir,
                     scripts, now, ticks, admitted, response, workload>>

NextInvoker ==
  \/ \E dir \in InitialDirs, sc \in {AllScripts, AllScripts \ {"htmlToPdf"}} : PrepareDir(dir, sc)
  \/ \E req \in workload, oc \in ExecOutcomes : Invoke(req, oc)

SpecInvoker == InitInvoker /\ [][NextInvoker]_vars

(* ============================== claims ================================= *)
Terminal == {"finished", "error"}
StateOf(id) == taskObj[id].state
Processing == {id \in tasks : StateOf(id) = "processing"}

\* the job's input file is (still) in the upload directory
InputRemains(id) == existsSync(uploadDir, taskObj[id].inputPath)

\* the path of the job's output artifact: the outputPath field once set,
\* before that the path convertAsync chose when the job was admitted
HasOutputArtifact(id) == IsSet(taskObj[id], "outputPath") \/ id \in DOMAIN outputOf
OutputArtifact(id) ==
  IF IsSet(taskObj[id], "outputPath") THEN taskObj[id].outputPath ELSE outputOf[id]
\* the job's output artifact exists on disk with size > 0
OutputOnDisk(id) ==
  /\ HasOutputArtifact(id)
  /\ existsSync(publicDir, OutputArtifact(id))
  /\ publicDir[OutputArtifact(id)].size > 0

\* C1: in every reachable state, the number of jobs of the Task Store whose
\* state is processing is at most maxConcurrent.
C1_AtMostNProcessing == Cardinality(Processing) <= maxConcurrent

\* C1 witness: every slot is taken by a processing job while a third job waits.
C1_Witness ==
  /\ Cardinality(Processing) = maxConcurrent
  /\ \E id \in tasks : StateOf(id) = "queued" /\ pc[id] = "waiting"

\* C2: once a job's state is finished or error, no step changes that job's
\* state to a different value.
C2_TerminalIsFinal ==
  [][\A id \in Created : StateOf(id) \in Terminal => taskObj'[id].state = StateOf(id)]_vars

\* C2 witness: a job reached error, its .catch handler has run and its slot
\* was given back, next to a job that finished.
C2_Witness ==
  /\ \E id \in Created : /\ StateOf(id) = "error"
                         /\ id \notin DOMAIN catchPending
                         /\ id \notin active
  /\ \E id \in Created : StateOf(id) = "finished" /\ id \notin active

\* C3 (as claimed): for every job of the Task Store, state = finished if and
\* only if its output artifact exists with size > 0 and its input file is gone.
C3_FinishedIffArtifact ==
  \A id \in tasks : (StateOf(id) = "finished") <=> (OutputOnDisk(id) /\ ~InputRemains(id))

\* C4: for every job of the Task Store, state = error if and only if its
\* error message is non-empty and its input file is gone.
C4_ErrorIffMessage ==
  \A id \in tasks :
    (StateOf(id) = "error") <=>
      (/\ IsSet(taskObj[id], "error")
       /\ taskObj[id].error # <<>>
       /\ ~InputRemains(id))

\* C4 witness: a job of the store is in state error after its input file was
\* there when the backend ran.
C4_Witness ==
  \E id \in tasks : /\ StateOf(id) = "error"
                    /\ pc[id] = "settled"
                    /\ taskObj[id].updatedAt - taskObj[id].createdAt < uploadsOrphanAge

\* C5: for every job record, outputPath is set if and only if state is
\* finished, and error is set if and only if state is error.
C5_FieldsMatchState ==
  \A id \in tasks :
    /\ IsSet(taskObj[id], "outputPath") <=> (StateOf(id) = "finished")
    /\ IsSet(taskObj[id], "error") <=> (StateOf(id) = "error")

\* C5 witness: the store holds a finished job and an error job at once, and a
\* job that is still processing.
C5_Witness ==
  /\ \E id \in tasks : StateOf(id) = "finished"
  /\ \E id \in tasks : StateOf(id) = "error"
  /\ \E id \in tasks : StateOf(id) = "processing"

\* C6: jobs are admitted strictly in submission order: job ids are given in
\* submission order, and the k-th job to enter processing is job k.
C6_FifoAdmission == \A k \in DOMAIN admitted : admitted[k] = k

\* C6 witness: two jobs waited in the gate at once behind two running jobs,
\* of which one failed and one completed, and all four were then admitted.
C6_Witness ==
  /\ Len(admitted) = maxConcurrent + 2
  /\ \E id \in Created : StateOf(id) = "error"
  /\ \E id \in Created : StateOf(id) = "finished"
  /\ \E a, b \in Created : taskObj[a].category # taskObj[b].category

\* C7 (as claimed): two jobs submitted with the same original filename and the
\* same target get distinct output filenames.
C7_DistinctOutputNames ==
  \A a, b \in DOMAIN outputOf :
    (/\ a # b
     /\ taskObj[a].originalFileName = taskObj[b].originalFileName
     /\ taskObj[a].target = taskObj[b].target)
    => outputOf[a] # outputOf[b]
\* the invocation made in SpecInvoker has returned
Returned == lastInvoke # <<>>
\* the error carries a sign that the timeout cut the process off: exec's
\* killed flag, or one of the invokers' timeout messages
TimeoutMessages == {<<"conversion timed out, retry">>, <<"document conversion timed out, retry">>}
FlaggedTimeout(error) == error.killed \/ error.message \in TimeoutMessages

\* C8 (as claimed): for every backend kind, an invocation that exceeds the
\* timeout surfaces an error flagged as a timeout, and no failure that is not a
\* timeout surfaces an error so flagged.
C8_TimeoutIsFlagged ==
  (Returned /\ ~lastInvoke.ok) =>
    (FlaggedTimeout(lastInvoke.error) <=> (lastInvoke.oc.exit = "timeout"))

\* C9 (as claimed): for every backend kind, after an invocation that ended in
\* error no zero-byte or partial file that the invocation wrote remains in the
\* output directory, under the requested name or any other.
C9_NoPartialOutputLeft ==
  (Returned /\ ~lastInvoke.ok) =>
    \A n \in DOMAIN publicDir :
      publicDir[n].by = lastInvoke.id => (publicDir[n].size > 0 /\ publicDir[n].complete)

\* C10 (as claimed): for every backend kind, an invocation returns success only
\* if the requested output path exists with non-zero size when it returns.
C10_SuccessMeansOutput ==
  (Returned /\ lastInvoke.ok) =>
    /\ existsSync(publicDir, lastInvoke.output)
    /\ publicDir[lastInvoke.output].size > 0

\* the job's output file is on disk (whatever its size)
OutputRemains(id) == HasOutputArtifact(id) /\ existsSync(publicDir, OutputArtifact(id))

\* C11 (as claimed): a job created at T is present in the store when queried
\* at any time before T + fileExpireTime, and when queried at any time after
\* T + fileExpireTime it is absent from the store and its input and output
\* files are absent from disk.
C11_Expiry ==
  \A id \in Created :
    /\ now - taskObj[id].createdAt < fileExpireTime => StatusOf(id).status = 200
    /\ now - taskObj[id].createdAt > fileExpireTime =>
         /\ StatusOf(id) = NotFound
         /\ ~InputRemains(id)
         /\ ~OutputRemains(id)

\* the name has the shape convertAsync gives the artifact of a successful
\* conversion: `${cleanName}_${timestamp}.${target}`
IsFriendlyName(name) ==
  name.stamp # <<>> /\ Len(name.base) > 0 /\ name.base[Len(name.base)] = "_"

\* the files of the directory that the orphan pass of this sweep deletes
OrphanDeleted(dir, tracked, maxAge) ==
  (DOMAIN dir \ tracked) \ DOMAIN cleanupOrphanedFiles([n \in DOMAIN dir \ tracked |-> dir[n]], maxAge, now)

\* C12 (as claimed): the orphan sweep never deletes a file with the friendly
\* name and timestamp of a successful conversion, in the upload or the public
\* directory (the source sets no end to the exemption: a file it takes for
\* friendly is skipped at every pass, so no pass comes after the window).
C12_FriendlyExempt ==
  [][cleanupExpiredFiles =>
       /\ \A n \in OrphanDeleted(uploadDir, ExpiredInputs(now), uploadsOrphanAge) : ~IsFriendlyName(n)
       /\ \A n \in OrphanDeleted(publicDir, ExpiredOutputs(now), publicOrphanAge) : ~IsFriendlyName(n)]_vars

\* the document pair is declared in neither table
DeclaredNowhere(sourceExt, targetFormat) ==
  /\ ConversionKey(sourceExt, targetFormat) \notin DOMAIN pythonConversions
  /\ ~(/\ targetFormat \in DOMAIN supportedConversions.document
       /\ sourceExt \in supportedConversions.document[targetFormat])

\* C13: the router's result: for audio it equals membership of the source
\* extension in the table entry of the target (so .wav to mp3 is supported);
\* for a document pair with a named script it is true only if the script file
\* is on disk; for a document pair declared nowhere (.xyz to pdf) it is false.
C13_RouterResult ==
  lastInvoke # <<>> =>
    LET q == lastInvoke
        key == ConversionKey(q.sourceExt, q.target)
    IN  /\ q.category = "audio" =>
             q.supported = (/\ q.target \in DOMAIN supportedConversions.audio
                            /\ q.sourceExt \in supportedConversions.audio[q.target])
        /\ (q.category = "audio" /\ q.sourceExt = ".wav" /\ q.target = "mp3") => q.supported
        /\ (q.category = "document" /\ key \in DOMAIN pythonConversions) =>
             (q.supported => pythonConversions[key] \in scripts)
        /\ (q.category = "document" /\ DeclaredNowhere(q.sourceExt, q.target)) => ~q.supported
        /\ (q.category = "document" /\ q.sourceExt = ".xyz" /\ q.target = "pdf") => ~q.supported

\* C13 witness: .pdf to docx was asked for while its script file is missing,
\* and the router answered that it is not supported.
C13_Witness ==
  /\ lastInvoke # <<>>
  /\ lastInvoke.category = "document"
  /\ lastInvoke.sourceExt = ".pdf"
  /\ lastInvoke.target = "docx"
  /\ pythonConversions[<<"pdf", "docx">>] \notin scripts
  /\ ~lastInvoke.supported

\* this step sends the upload route's rejection with the message
Rejects(message) ==
  /\ response' # response
  /\ response' # <<>>
  /\ response'.status = 400
  /\ response'.message = message

\* C14: a submission whose declared source format differs from the uploaded
\* file's extension is rejected before any job is created: the Task Store is
\* unchanged, nothing is handed to the gate, and the uploaded file is removed.
C14_MismatchRejected ==
  [][Rejects("format mismatch") =>
       /\ taskObj' = taskObj
       /\ tasks' = tasks
       /\ queue' = queue
       /\ active' = active
       /\ pc' = pc
       /\ ~existsSync(uploadDir', response'.upload)]_vars

\* C14 witness: a mismatched submission was rejected while the store holds a
\* job that runs and a job that waits.
C14_Witness ==
  /\ response # <<>>
  /\ response.status = 400
  /\ response.message = "format mismatch"
  /\ \E id \in tasks : pc[id] = "running"
  /\ \E id \in tasks : pc[id] = "settled"

\* the artifact URL fields of a status answer
UrlFields == {"url", "downloadUrl", "previewUrl"}

\* the file is on disk, complete and not empty, written by the job's own conversion
CompleteArtifactOf(id, name) ==
  /\ existsSync(publicDir, name)
  /\ publicDir[name].size > 0
  /\ publicDir[name].complete
  /\ publicDir[name].by = id

\* C15 (as claimed): whenever the status answer for a job carries an artifact
\* URL, the file the URL names is on disk, complete, of non-zero size and
\* produced by that job's successful conversion.
C15_LinksOnlyToCompleteArtifacts ==
  \A id \in Created :
    \A f \in UrlFields \cap DOMAIN StatusOf(id) :
      CompleteArtifactOf(id, StatusOf(id)[f].file)

\* C16: backend errors are never retried: a job is admitted by the gate at
\* most once, once it has left the gate's queue it never waits there again,
\* its conversion runs at most once, and a conversion that failed leaves the
\* job in state error.
C16_NoRetry ==
  [][/\ Len(admitted') > Len(admitted) => admitted'[Len(admitted')] \notin Range(admitted)
     /\ \A j \in Created :
          /\ pc[j] # "waiting" => (pc'[j] # "waiting" /\ j \notin Range(queue'))
          /\ pc[j] = "settled" => pc'[j] = "settled"
          /\ (pc[j] = "running" /\ pc'[j] = "settled" /\ j \in DOMAIN catchPending')
               => taskObj'[j].state = "error"]_vars

\* C16 witness: a job's conversion failed, its slot was given back and the
\* jobs behind it were admitted, and it stays in error, admitted once.
C16_Witness ==
  /\ Len(admitted) = maxConcurrent + 2
  /\ queue = <<>>
  /\ \E j \in Created : /\ StateOf(j) = "error"
                        /\ pc[j] = "settled"
                        /\ j \notin active
                        /\ j \notin DOMAIN catchPending
                        /\ Cardinality({k \in DOMAIN admitted : admitted[k] = j}) = 1
                        /\ admitted[1] = j

\* the exec outcomes in which the timeout cut the process off
TimeoutOutcomes == {oc \in ExecOutcomes : oc.exit = "timeout"}

\* C17: every job admitted by the gate eventually reaches a terminal state
\* (every backend invocation returning or being cut off by its timeout): a
\* job in processing eventually becomes finished or error, and the step in
\* which a timed-out invocation returns leaves the job in error.
C17_AdmittedJobsTerminate ==
  /\ \A j \in Jobs :
       (j \in Created /\ StateOf(j) = "processing") ~> (j \in Created /\ StateOf(j) \in Terminal)
  /\ [][\A j \in Created : \A oc \in TimeoutOutcomes :
           ExecDone(j, oc) => taskObj'[j].state = "error"]_vars

\* C17 witness: the transcoder of a job was killed by the timeout and the job
\* is in error, while another job has finished.
C17_Witness ==
  /\ \E j \in DOMAIN catchPending : catchPending[j].killed /\ StateOf(j) = "error"
  /\ \E j \in Created : StateOf(j) = "finished"

\* every job submitted so far is in a terminal state
AllTerminal == Created # {} /\ \A j \in Created : StateOf(j) \in Terminal

\* C18: a job that fails releases its gate slot: a failed job that holds a
\* slot eventually holds none, every job waiting in the gate is eventually
\* admitted, and once all submitted jobs are terminal the number of occupied
\* slots returns to 0.
C18_FailedJobsReleaseSlots ==
  /\ \A j \in Jobs :
       (j \in active /\ StateOf(j) = "error") ~> (j \notin active)
  /\ \A j \in Jobs : (pc[j] = "waiting") ~> (pc[j] # "waiting")
  /\ AllTerminal ~> (active = {})

\* C18 witness: every slot was held by a job that failed, the jobs waiting
\* behind them were admitted, and all jobs are terminal with no slot occupied.
C18_Witness ==
  /\ Cardinality(Created) = GateJobs
  /\ AllTerminal
  /\ active = {}
  /\ \A k \in 1..maxConcurrent : StateOf(admitted[k]) = "error"

\* this step is the return of job a's backend call and what convertAsync does after it
ConversionReturns(a) == pc[a] = "running" /\ pc'[a] = "settled"

\* job b is finished and its output artifact is on disk
ArtifactInPlace(b) ==
  /\ StateOf(b) = "finished"
  /\ existsSync(publicDir, taskObj[b].outputPath)

\* C19 (as claimed): no step performed on behalf of a job (backend write,
\* failure cleanup, the document engine's rename of the file found)
\* overwrites, deletes or renames the output artifact of a different job.
C19_NoClobber ==
  [][\A a \in Created : ConversionReturns(a) =>
       \A b \in Created \ {a} : ArtifactInPlace(b) =>
         /\ existsSync(publicDir', taskObj[b].outputPath)
         /\ publicDir'[taskObj[b].outputPath] = publicDir[taskObj[b].outputPath]]_vars

\* the message of runSoffice's check that the engine generated a file
NoOutputProduced == "LibreOffice failed: no file generated"

\* the invocation made was a document engine run that exited normally and
\* wrote no file
EngineWroteNothing ==
  /\ Returned
  /\ lastInvoke.backend = "soffice"
  /\ lastInvoke.oc.exit = "ok"
  /\ lastInvoke.oc.wrote = "none"

\* C20 (as claimed): if the document engine run for a job produces no output
\* file of its own, the invocation fails with the no-output error, whatever
\* other files with the target extension are in the output directory.
C20_NoOutputIsAnError ==
  EngineWroteNothing =>
    /\ ~lastInvoke.ok
    /\ Includes(lastInvoke.error.message, NoOutputProduced)

\* C21: script-based handling takes precedence consistently: for every
\* document pair with a named-script entry the router's answer is whether that
\* script is on disk (whatever the static table says) and
\* runDocumentConversion reaches the script invoker, never the document
\* engine; a pair without a script entry reaches only the document engine.
C21_ScriptPrecedence ==
  lastInvoke # <<>> =>
    LET q == lastInvoke
        key == ConversionKey(q.sourceExt, q.target)
    IN  IF key \in DOMAIN pythonConversions
        THEN /\ q.supported = (pythonConversions[key] \in scripts)
             /\ q.via = "python"
        ELSE q.via = "soffice"

\* C21 witness: .pdf to docx is in the static table and has a script; with
\* the script on disk the router accepts it and the script invoker ran.
C21_Witness ==
  /\ lastInvoke # <<>>
  /\ lastInvoke.sourceExt = ".pdf"
  /\ lastInvoke.target = "docx"
  /\ ".pdf" \in supportedConversions.document.docx
  /\ lastInvoke.supported
  /\ lastInvoke.via = "python"
  /\ lastInvoke.spawned

\* C22: the tracked-job pass only deletes: after a sweep at time now the
\* store holds exactly the jobs that were in it before with
\* now - createdAt <= fileExpireTime, and the record of every remaining job is
\* field for field what it was.
C22_SweepOnlyDeletes ==
  [][cleanupExpiredFiles =>
       /\ tasks' = {id \in tasks : now - taskObj[id].createdAt <= fileExpireTime}
       /\ \A id \in tasks' : taskObj'[id] = taskObj[id]]_vars

\* C22 witness: a sweep has removed an expired job, and a job created after
\* it expired is still in the store, admitted.
C22_Witness ==
  /\ \E id \in Created \ tasks : now - taskObj[id].createdAt > fileExpireTime
  /\ \E id \in tasks : /\ now - taskObj[id].createdAt <= fileExpireTime
                       /\ StateOf(id) # "queued"

\* C23: sweeps are best-effort: when unlink (or stat) of some files fails, or
\* a file is already gone, the sweep still removes every expired job from the
\* store and still deletes every other file it would have deleted; the
\* failure does not end the sweep.
C23_SweepIsBestEffort ==
  [][\A failing \in SUBSET (DOMAIN uploadDir \cup DOMAIN publicDir) :
       SweepWithFaults(failing) =>
         /\ tasks' = tasks \ Expired(now)
         /\ \A n \in DOMAIN uploadDir \ failing :
              n \in DOMAIN uploadDir' <=>
                (n \notin ExpiredInputs(now) /\ n \notin OrphanDeleted(uploadDir, ExpiredInputs(now), uploadsOrphanAge))
         /\ \A n \in DOMAIN publicDir \ failing :
              n \in DOMAIN publicDir' <=>
                (n \notin ExpiredOutputs(now) /\ n \notin OrphanDeleted(publicDir, ExpiredOutputs(now), publicOrphanAge))]_vars

\* C23 witness: a sweep removed an expired job from the store although the
\* unlink of its input file failed (the file is still there), and deleted
\* the old files around it.
C23_Witness ==
  /\ \E id \in Created \ tasks : InputRemains(id)
  /\ \A n \in DOMAIN uploadDir : uploadDir[n].by > 0
  /\ publicDir = <<>>

\* the orphan pass over the public directory, run just after the file has
\* passed the directory's ordinary age, keeps the file
KeptAtOrdinaryAge(n) ==
  n \in DOMAIN cleanupOrphanedFiles([m \in {n} |-> publicDir[n]], publicOrphanAge,
                                    publicDir[n].mtime + publicOrphanAge + 1)

\* C24 (as claimed): the output file name convertAsync generated for every
\* successful conversion matches the pattern by which the orphan sweep
\* recognises friendly-named files, and so the orphan pass keeps the file
\* when it is older than the public directory's ordinary age.
C24_GeneratedNameRecognised ==
  \A id \in tasks :
    (StateOf(id) = "finished" /\ existsSync(publicDir, taskObj[id].outputPath)) =>
      /\ MatchesFriendlyPattern(taskObj[id].outputPath)
      /\ KeptAtOrdinaryAge(taskObj[id].outputPath)

\* the file is in the directory, belongs to no job of the store, and is older
\* than every age threshold the sweeper has
OldUntracked(dir, n) ==
  /\ n \in DOMAIN dir
  /\ \A id \in tasks : /\ taskObj[id].inputPath # n
                        /\ (IsSet(taskObj[id], "outputPath") => taskObj[id].outputPath # n)
                        /\ (id \in DOMAIN outputOf => outputOf[id] # n)
  /\ now - dir[n].mtime > fileExpireTime

\* C25 (as claimed): every untracked file of the upload or the public
\* directory, one whose name matches the friendly-name pattern included, is
\* eventually deleted by the repeated sweeps once it is old enough.
C25_EveryOrphanDeleted ==
  \A n \in LeftoverNames :
    /\ OldUntracked(uploadDir, n) ~> (n \notin DOMAIN uploadDir)
    /\ OldUntracked(publicDir, n) ~> (n \notin DOMAIN publicDir)

\* what the sweeps do achieve: every old untracked file whose name the
\* pattern does not match is eventually deleted
C25_UnmatchedOrphanDeleted ==
  \A n \in {m \in LeftoverNames : ~MatchesFriendlyPattern(m)} :
    /\ OldUntracked(uploadDir, n) ~> (n \notin DOMAIN uploadDir)
    /\ OldUntracked(publicDir, n) ~> (n \notin DOMAIN publicDir)

\* C26: a submission for which isConversionSupported is false is rejected
\* before any process is spawned: no job is inserted in the Task Store,
\* nothing is queued on the gate, no backend is invoked, and the uploaded
\* file is removed; and no job is ever created for such a conversion.
C26_UnsupportedRejected ==
  [][/\ Rejects("unsupported conversion") =>
          /\ taskObj' = taskObj
          /\ tasks' = tasks
          /\ queue' = queue
          /\ active' = active
          /\ pc' = pc
          /\ outputOf' = outputOf
          /\ publicDir' = publicDir
          /\ ~existsSync(uploadDir', response'.upload)
          /\ DOMAIN uploadDir' = DOMAIN uploadDir
     /\ \A id \in DOMAIN taskObj' \ DOMAIN taskObj :
          isConversionSupported(scripts, taskObj'[id].category,
                                detectExtByName(taskObj'[id].inputPath), taskObj'[id].target)]_vars

\* C26 witness: an unsupported submission was rejected while the store holds
\* a job that runs and a job that has finished, and its file is not in the
\* upload directory.
C26_Witness ==
  /\ response # <<>>
  /\ response.status = 400
  /\ response.message = "unsupported conversion"
  /\ ~existsSync(uploadDir, response.upload)
  /\ \E id \in tasks : pc[id] = "running"
  /\ \E id \in tasks : StateOf(id) = "finished"

\* C27: for every job createdAt <= updatedAt; no step decreases a job's
\* updatedAt (the clock does not go back); and every step that changes a
\* job's state (queued to processing, processing to finished, processing to
\* error) sets its updatedAt to the time of the step.
C27_UpdatedAtMonotonic ==
  [][/\ \A id \in DOMAIN taskObj' : taskObj'[id].createdAt <= taskObj'[id].updatedAt
     /\ \A id \in Created :
          /\ taskObj[id].updatedAt <= taskObj'[id].updatedAt
          /\ taskObj'[id].state # taskObj[id].state => taskObj'[id].updatedAt = now]_vars

\* C27 witness: after the clock has advanced, one job finished, one job
\* failed and one job was admitted, each later than it was created.
C27_Witness ==
  \E a, b, c \in Created :
    /\ StateOf(a) = "finished" /\ taskObj[a].createdAt < taskObj[a].updatedAt
    /\ StateOf(b) = "error" /\ taskObj[b].createdAt < taskObj[b].updatedAt
    /\ StateOf(c) = "processing" /\ taskObj[c].createdAt < taskObj[c].updatedAt

\* C28: readers never see a torn job record: at every point between two
\* callbacks the status answer for a job of the store is state finished with
\* the output path and all URLs, or state error with a non-empty message, or
\* state queued or processing with no output path and no URL.
C28_NoTornRecord ==
  \A id \in tasks :
    LET answer == StatusOf(id)
    IN  /\ answer.state = "finished" =>
             IsSet(taskObj[id], "outputPath") /\ UrlFields \subseteq DOMAIN answer
        /\ answer.state = "error" =>
             "message" \in DOMAIN answer /\ answer.message # <<>>
        /\ answer.state \in {"queued", "processing"} =>
             ~IsSet(taskObj[id], "outputPath") /\ UrlFields \cap DOMAIN answer = {}

\* C28 witness: one status query each finds a job finished with its URLs, a
\* job in error whose .catch handler has not run yet, and a job processing.
C28_Witness ==
  \E a, b, c \in tasks :
    /\ StatusOf(a).state = "finished" /\ "url" \in DOMAIN StatusOf(a)
    /\ StatusOf(b).state = "error" /\ b \in DOMAIN catchPending
    /\ StatusOf(c).state = "processing" /\ pc[c] = "running"

\* C29: every job's state sequence is a prefix of queued, processing, then
\* one of finished or error: a job starts queued, becomes processing only in
\* the step in which the gate admits it (a slot is free and the job takes
\* it), leaves processing only for finished or error, and no other step
\* changes its state; so no job goes from queued to a terminal state.
C29_StateSequence ==
  [][/\ \A id \in DOMAIN taskObj' \ Created : taskObj'[id].state = "queued"
     /\ \A id \in Created :
          \/ taskObj'[id].state = StateOf(id)
          \/ /\ StateOf(id) = "queued"
             /\ taskObj'[id].state = "processing"
             /\ Cardinality(active) < maxConcurrent
             /\ id \notin active
             /\ active' = active \cup {id}
          \/ /\ StateOf(id) = "processing"
             /\ taskObj'[id].state \in Terminal]_vars

\* C29 witness: of the jobs the gate has admitted one is finished, one is in
\* error after its .catch handler ran, one is processing, and a fourth job
\* is still queued.
C29_Witness ==
  \E a, b, c, d \in Created :
    /\ \A x \in {a, b, c} : \E k \in DOMAIN admitted : admitted[k] = x
    /\ \A k \in DOMAIN admitted : admitted[k] # d
    /\ StateOf(a) = "finished"
    /\ StateOf(b) = "error" /\ b \notin DOMAIN catchPending
    /\ StateOf(c) = "processing"
    /\ StateOf(d) = "queued"

\* the job is a document job routed to a named script that is not on disk
ScriptMissing(j) ==
  /\ taskObj[j].category = "document"
  /\ ConversionKey(detectExtByName(taskObj[j].inputPath), taskObj[j].target) \in DOMAIN pythonConversions
  /\ pythonConversions[ConversionKey(detectExtByName(taskObj[j].inputPath), taskObj[j].target)] \notin scripts

\* C30: if the named script of an accepted document job is missing when the
\* job executes, no external process is spawned for it (whatever a process
\* would have done, the invoker returns without spawning and the public
\* directory is untouched), and the job ends in state error with a non-empty
\* message and its input file deleted.
C30_MissingScriptAtRun ==
  [][\A j \in Created :
       (pc[j] = "running" /\ pc'[j] = "settled" /\ ScriptMissing(j)) =>
         /\ \A oc \in GateOutcomes :
              \A r \in InvokeResults(taskObj[j], outputOf[j], oc) : ~r.spawned
         /\ publicDir' = publicDir
         /\ taskObj'[j].state = "error"
         /\ IsSet(taskObj'[j], "error") /\ taskObj'[j].error # <<>>
         /\ ~existsSync(uploadDir', taskObj[j].inputPath)]_vars

\* C30 witness: a document job that was accepted while its script was on disk
\* and admitted after the script went missing has ended in error with the
\* invoker's message for a missing script, its input file deleted, while a
\* job converted by LibreOffice finished.
C30_Witness ==
  \E j, k \in tasks :
    /\ ScriptMissing(j)
    /\ pc[j] = "settled"
    /\ StateOf(j) = "error"
    /\ taskObj[j].error = <<"conversion script does not exist">>
    /\ ~InputRemains(j)
    /\ StateOf(k) = "finished"

\* the fields of a job record that are given at submission
IdentityFields == {"id", "createdAt", "category", "source", "target", "inputPath", "originalFileName"}

\* C31: job identifiers are unique among all jobs ever created (a new record
\* gets an id and an input path that no record, in the store or swept, has),
\* and a job's id, createdAt, category, source format, target format, input
\* path and original display name never change once the record is created.
C31_IdentityImmutable ==
  [][/\ \A id \in DOMAIN taskObj' \ Created :
          /\ taskObj'[id].id = id
          /\ \A old \in Created : /\ taskObj[old].id # taskObj'[id].id
                                   /\ taskObj[old].inputPath # taskObj'[id].inputPath
     /\ \A id \in Created :
          /\ id \in DOMAIN taskObj'
          /\ \A f \in IdentityFields : taskObj'[id][f] = taskObj[id][f]]_vars

\* C31 witness: every job of the run was created, and among them one has
\* finished after the clock advanced, one is in error after its .catch
\* handler ran, and one was removed by the sweeper.
C31_Witness ==
  /\ Cardinality(Created) = MaxJobs
  /\ \E id \in Created : StateOf(id) = "finished" /\ taskObj[id].createdAt < taskObj[id].updatedAt
  /\ \E id \in Created : StateOf(id) = "error" /\ id \notin DOMAIN catchPending
  /\ Created \ tasks # {}

\* C32 (as claimed): once a job's record has reached finished or error, no
\* step of the orchestrator or of the .catch handler writes any field of it
\* again: while the job stays in the store its record does not change.
C32_TerminalWrittenOnce ==
  [][\A id \in tasks \cap tasks' :
       StateOf(id) \in Terminal => taskObj'[id] = taskObj[id]]_vars

\* the jobs the sweeper has removed from the store
SweptJobs == Created \ tasks

\* C33 (as claimed): a job the sweeper removed from the Task Store never
\* reappears: no later step puts a record with its id back into the store.
C33_SweptStaysGone ==
  [][\A id \in SweptJobs : id \notin tasks']_vars

\* C34 (as claimed): a sweep never deletes the input file of a job that stays
\* in the store in state queued or processing, nor the output file of a job
\* that stays in the store in state finished, however long the job has
\* waited and whatever the file's modification time.
C34_SweepSparesTrackedFiles ==
  [][cleanupExpiredFiles =>
       \A id \in tasks \cap tasks' :
         /\ (StateOf(id) \in {"queued", "processing"} /\ InputRemains(id)) =>
              existsSync(uploadDir', taskObj[id].inputPath)
         /\ (StateOf(id) = "finished" /\ existsSync(publicDir, taskObj[id].outputPath)) =>
              existsSync(publicDir', taskObj[id].outputPath)]_vars

C35_AgreeOnTableCategories ==
  (lastInvoke # <<>> /\ lastInvoke.category \in DOMAIN supportedConversions) =>
    /\ ~lastInvoke.threw
    /\ lastInvoke.supported = lastInvoke.targets

\* the messages of the upload route's rejections of a request that carried a file
RejectionMessages == {"missing fields", "format mismatch", "unsupported conversion"}

\* C36 (as claimed): every rejection of an upload request that carried a
\* file (missing category or target, source-format mismatch, unsupported
\* conversion) leaves no job in the store and the uploaded file deleted from
\* the upload directory when the response is sent.
C36_RejectionLeavesNothing ==
  [][\A message \in RejectionMessages :
       Rejects(message) =>
         /\ tasks' = tasks
         /\ taskObj' = taskObj
         /\ ~existsSync(uploadDir', response'.upload)]_vars

\* C37: a sweep is idempotent at a fixed clock value: in the state a run of
\* cleanupExpiredFiles leaves, a second run at once would leave the Task
\* Store and both directories as they are.
C37_SweepIdempotent ==
  [][cleanupExpiredFiles =>
       (Swept({}))' = [tasks |-> tasks', uploadDir |-> uploadDir', publicDir |-> publicDir']]_vars

\* C37 witness: a sweep has removed an expired job from the store and
\* emptied the public directory, and passed over the file in the upload
\* directory whose name the pattern matches.
C37_Witness ==
  /\ SweptJobs # {}
  /\ DOMAIN uploadDir = {DatedName}
  /\ publicDir = <<>>
  /\ now > fileExpireTime
====
